---- MODULE Spec2Model ----
(***************************************************************************)
(* Model of the two periodic interpolation engines                         *)
(*   classes/cubic_periodic_splines.py     Cubic_Periodic_Spline           *)
(*   classes/trigonometric_polynomials.py  Trigonometric_Polynomial        *)
(*                                                                         *)
(* Numbers.  A float is modelled by its exact value: a pair <<n, d>> with  *)
(* d > 0 and gcd(n, d) = 1 is the rational n/d, and the three pairs with   *)
(* d = 0 are the non-finite floats: <<1, 0>> = +inf, <<-1, 0>> = -inf and  *)
(* <<0, 0>> = nan.  The operations follow IEEE-754 on these values (x/0 is *)
(* an infinity or nan, nan compares false with everything); rounding is    *)
(* not modelled.                                                           *)
(*                                                                         *)
(* Angles.  Positions and queries are measured in units of pi/3, so that   *)
(* the program constant 2 * numpy.pi is the integer TwoPi = 6.  At whole   *)
(* multiples of pi/3 the cosine and the sine lie in Q(sqrt 3); the         *)
(* trigonometric engine computes in that field, an element r + s*sqrt(3)   *)
(* being the pair <<r, s>> of two numbers.                                 *)
(***************************************************************************)
EXTENDS Integers, Sequences, FiniteSets

VARIABLES pc, cls, self, args, call

vars == <<pc, cls, self, args, call>>

(***************************************************************************)
(* Bounds of the model (not program constants).                            *)
(***************************************************************************)
MaxN == 3
MaxVal == 1

(* 2 * numpy.pi, in units of pi/3 *)
TwoPi == 6

(***************************************************************************)
(* Exact float arithmetic                                                  *)
(***************************************************************************)
Abs(x) == IF x < 0 THEN 0 - x ELSE x

Sign(x) == IF x > 0 THEN 1 ELSE IF x < 0 THEN 0 - 1 ELSE 0

RECURSIVE GCD(_, _)
GCD(a, b) == IF b = 0 THEN a ELSE GCD(b, a % b)

NaN == <<0, 0>>
PosInf == <<1, 0>>
NegInf == <<0 - 1, 0>>

Fl(k) == <<k, 1>>

IsNaN(x) == x[2] = 0 /\ x[1] = 0
IsFinite(x) == x[2] > 0

\* the float n/d in lowest terms (d may be negative or zero)
Norm(n, d) ==
    IF d = 0 THEN <<Sign(n), 0>>
    ELSE LET g == GCD(Abs(n), Abs(d))
         IN  <<Sign(d) * (n \div g), Abs(d) \div g>>

Add(x, y) ==
    IF IsNaN(x) \/ IsNaN(y) THEN NaN
    ELSE IF ~IsFinite(x) THEN (IF ~IsFinite(y) /\ y[1] # x[1] THEN NaN ELSE x)
    ELSE IF ~IsFinite(y) THEN y
    ELSE LET g == GCD(x[2], y[2])
             L == (x[2] \div g) * y[2]
         IN  Norm(x[1] * (L \div x[2]) + y[1] * (L \div y[2]), L)

Neg(x) == <<0 - x[1], x[2]>>

Sub(x, y) == Add(x, Neg(y))

Mul(x, y) ==
    IF x[2] = 0 \/ y[2] = 0 THEN <<Sign(x[1]) * Sign(y[1]), 0>>
    ELSE LET g1 == GCD(Abs(x[1]), y[2])
             g2 == GCD(Abs(y[1]), x[2])
         IN  Norm((x[1] \div g1) * (y[1] \div g2), (x[2] \div g2) * (y[2] \div g1))

Inv(x) ==
    IF x[2] = 0 THEN (IF x[1] = 0 THEN NaN ELSE <<0, 1>>)
    ELSE IF x[1] = 0 THEN PosInf
    ELSE <<Sign(x[1]) * x[2], Abs(x[1])>>

Div(x, y) == Mul(x, Inv(y))

Pow2(x) == Mul(x, x)
Pow3(x) == Mul(x, Mul(x, x))

\* x >= y and x > y on floats: false as soon as one side is nan
Geq(x, y) ==
    /\ ~IsNaN(x)
    /\ ~IsNaN(y)
    /\ IF x[2] = 0 /\ y[2] = 0 THEN x[1] >= y[1] ELSE x[1] * y[2] >= y[1] * x[2]

Gt(x, y) ==
    /\ ~IsNaN(x)
    /\ ~IsNaN(y)
    /\ IF x[2] = 0 /\ y[2] = 0 THEN x[1] > y[1] ELSE x[1] * y[2] > y[1] * x[2]

AllFinite(s) == \A i \in DOMAIN s : IsFinite(s[i])

(***************************************************************************)
(* numpy helpers.  An array of length n is a function on 0 .. n-1, so that *)
(* indices are the source's.                                               *)
(***************************************************************************)
len(a) == Cardinality(DOMAIN a)

Empty == [i \in {} |-> NaN]

\* numpy.any in the place of numpy.all: false of the empty comparison
NpAnyDescending(t) == \E i \in 0 .. len(t) - 2 : Gt(t[i], t[i + 1])

\* numpy.all( t[:-1] > t[1:] ): true of the empty comparison
NpAllDescending(t) == \A i \in 0 .. len(t) - 2 : Gt(t[i], t[i + 1])

\* the rejection test of both constructors
NotAscendingInRange(t) ==
    NpAllDescending(t) \/ Geq(t[len(t) - 1], Fl(TwoPi))

\* numpy.diff
NpDiff(a) == [i \in 0 .. len(a) - 2 |-> Sub(a[i + 1], a[i])]

\* numpy.roll of a vector by one place
NpRoll1(x) == [j \in DOMAIN x |-> x[(j - 1) % len(x)]]

\* list.append
Append0(a, v) == [i \in 0 .. len(a) |-> IF i < len(a) THEN a[i] ELSE v]

(***************************************************************************)
(* numpy.linalg.solve on exact numbers: the unique solution, by Cramer's   *)
(* rule, and LinAlgError when the matrix is singular.                      *)
(***************************************************************************)
Without(cols, j) ==
    [k \in 1 .. Len(cols) - 1 |-> IF k < j THEN cols[k] ELSE cols[k + 1]]

RECURSIVE DetFrom(_, _, _)
RECURSIVE DetSum(_, _, _, _)
\* Laplace expansion along row r over the remaining columns cols
DetFrom(M, r, cols) ==
    IF Len(cols) = 0 THEN Fl(1) ELSE DetSum(M, r, cols, Len(cols))

DetSum(M, r, cols, j) ==
    IF j = 0 THEN Fl(0)
    ELSE LET minor == DetFrom(M, r + 1, Without(cols, j))
             term == Mul(M[r][cols[j]], minor)
         IN  Add(DetSum(M, r, cols, j - 1),
                 IF j % 2 = 1 THEN term ELSE Neg(term))

Det(M) == DetFrom(M, 0, [k \in 1 .. len(M) |-> k - 1])

ReplaceCol(M, c, b) ==
    [r \in DOMAIN M |-> [k \in DOMAIN M |-> IF k = c THEN b[r] ELSE M[r][k]]]

Cramer(M, b) ==
    LET dt == Det(M)
    IN  [c \in DOMAIN M |-> Div(Det(ReplaceCol(M, c, b)), dt)]

\* an input with a non-finite entry: what LAPACK returns is left open between
\* LinAlgError and a result of nan
LinalgSolve(M, b) ==
    IF (\A r \in DOMAIN M : AllFinite(M[r])) /\ AllFinite(b)
    THEN IF Det(M) = Fl(0)
         THEN {[err |-> TRUE, x |-> Empty]}
         ELSE {[err |-> FALSE, x |-> Cramer(M, b)]}
    ELSE {[err |-> TRUE, x |-> Empty],
          [err |-> FALSE, x |-> [c \in DOMAIN M |-> NaN]]}

(***************************************************************************)
(* Cubic_Periodic_Spline.__init__                                          *)
(***************************************************************************)
\* self.t and self.f: the samples and the concluding point
SplineT(t) == Append0(t, Add(Fl(TwoPi), t[0]))

SplineF(f) == Append0(f, f[0])

\* my_1 .. my_n, stored at 0 .. n-1
SplineMy(h) ==
    LET n == len(h)
    IN  [k \in 0 .. n - 1 |->
            IF k < n - 1
            THEN Div(h[k], Add(h[k], h[k + 1]))
            ELSE Div(h[n - 1], Add(h[n - 1], h[0]))]

\* l_1 .. l_n
SplineL(my) == [k \in DOMAIN my |-> Sub(Fl(1), my[k])]

\* d_1 .. d_(n-1), then the value the source calls d_0
SplineD(f, h) ==
    LET n == len(h)
    IN  [k \in 0 .. n - 1 |->
            IF k < n - 1
            THEN LET i == k + 1
                 IN  Mul(Div(Sub(Div(Sub(f[i + 1], f[i]), h[i]),
                                 Div(Sub(f[i], f[i - 1]), h[i - 1])),
                             Add(h[i - 1], h[i])),
                         Fl(6))
            ELSE Mul(Div(Sub(Div(Sub(f[1], f[0]), h[0]),
                             Div(Sub(f[n], f[n - 1]), h[n - 1])),
                         Add(h[0], h[n - 1])),
                     Fl(6))]

\* numpy.diag( 2 * numpy.ones( n ) )
MatrixTwo(n) ==
    [r \in 0 .. n - 1 |-> [c \in 0 .. n - 1 |-> IF r = c THEN Fl(2) ELSE Fl(0)]]

\* numpy.roll( numpy.diag( l ), 1, axis = 1 ): l[k] moves from (k, k) to (k, k+1)
MatrixL(l) ==
    LET n == len(l)
    IN  [r \in 0 .. n - 1 |->
            [c \in 0 .. n - 1 |-> IF c = (r + 1) % n THEN l[r] ELSE Fl(0)]]

\* numpy.roll( numpy.diag( my ), 1, axis = 0 ): my[k] moves from (k, k) to (k+1, k)
MatrixMy(my) ==
    LET n == len(my)
    IN  [r \in 0 .. n - 1 |->
            [c \in 0 .. n - 1 |-> IF r = (c + 1) % n THEN my[c] ELSE Fl(0)]]

InterpolationMatrix(h) ==
    LET n == len(h)
        my == SplineMy(h)
        two == MatrixTwo(n)
        ml == MatrixL(SplineL(my))
        mm == MatrixMy(my)
    IN  [r \in 0 .. n - 1 |->
            [c \in 0 .. n - 1 |-> Add(Add(two[r][c], ml[r][c]), mm[r][c])]]

\* the solution rolled by one place, and the concluding moment m_n = m_0
SplineM(x) == Append0(NpRoll1(x), NpRoll1(x)[0])

SplineC(f, h, m) ==
    [i \in 0 .. len(h) - 1 |->
        Sub(Div(Add(f[i + 1], f[i]), Fl(2)),
            Mul(Div(Pow2(h[i]), Fl(12)), Add(m[i + 1], m[i])))]

SplineDcoef(f, h, m) ==
    [i \in 0 .. len(h) - 1 |->
        Sub(Div(Sub(f[i + 1], f[i]), h[i]),
            Mul(Div(h[i], Fl(6)), Sub(m[i + 1], m[i])))]

\* the object a successful construction leaves, given the solution x
SplineObject(t, f, x) ==
    LET T == SplineT(t)
        F == SplineF(f)
        h == NpDiff(T)
        m == SplineM(x)
    IN  [n |-> len(t), t |-> T, f |-> F, h |-> h, m |-> m,
         C |-> SplineC(F, h, m), D |-> SplineDcoef(F, h, m)]

\* the outcomes of Cubic_Periodic_Spline( t, f ): the next pc and the object
SplineInit(t, f) ==
    LET n == len(t)
    IN  IF n % 2 = 0 THEN {[pc |-> "Exit", self |-> [n |-> n]]}
        ELSE IF len(f) # n THEN {[pc |-> "Exit", self |-> [n |-> n]]}
        ELSE IF NotAscendingInRange(t) THEN {[pc |-> "Exit", self |-> [n |-> n]]}
        ELSE LET T == SplineT(t)
                 F == SplineF(f)
                 h == NpDiff(T)
             IN  {IF o.err
                  THEN [pc |-> "LinAlgError",
                        self |-> [n |-> n, t |-> T, f |-> F, h |-> h]]
                  ELSE [pc |-> "Ready", self |-> SplineObject(t, f, o.x)]
                  : o \in LinalgSolve(InterpolationMatrix(h), SplineD(F, h))}

(***************************************************************************)
(* Cubic_Periodic_Spline.__call__                                          *)
(* An argument is [kind, v]: kind is the Python type of the argument       *)
(* ("float", "list" or "ndarray") and v its values (one value for a float).*)
(***************************************************************************)
\* if isinstance( t, float ): t = [ t ]
WrapFloat(arg) ==
    IF arg.kind = "float" THEN [kind |-> "list", v |-> arg.v] ELSE arg

IsNdarray(arg) == arg.kind = "ndarray"

\* ( numpy.sum( numpy.where( t_matrix >= T_matrix, 1, 0 ), axis = 0 ) - 1 ) % n
SplineIndices(obj, t) ==
    [i \in DOMAIN t |->
        (Cardinality({j \in 0 .. obj.n - 1 : Geq(t[i], obj.t[j])}) - 1) % obj.n]

\* the cubic of segment k at x
SplineSegment(obj, k, x) ==
    Add(Add(obj.C[k],
            Mul(obj.D[k],
                Sub(x, Div(Add(obj.t[k], obj.t[k + 1]), Fl(2))))),
        Div(Div(Sub(Mul(obj.m[k + 1], Pow3(Sub(x, obj.t[k]))),
                    Mul(obj.m[k], Pow3(Sub(x, obj.t[k + 1])))),
                Fl(6)),
            obj.h[k]))

\* first and second derivative in x of the cubic of segment k
SplineSegmentD1(obj, k, x) ==
    Add(obj.D[k],
        Div(Div(Sub(Mul(obj.m[k + 1], Pow2(Sub(x, obj.t[k]))),
                    Mul(obj.m[k], Pow2(Sub(x, obj.t[k + 1])))),
                Fl(2)),
            obj.h[k]))

SplineSegmentD2(obj, k, x) ==
    Div(Sub(Mul(obj.m[k + 1], Sub(x, obj.t[k])),
            Mul(obj.m[k], Sub(x, obj.t[k + 1]))),
        obj.h[k])

SplineEvaluate(obj, t) ==
    LET indices == SplineIndices(obj, t)
    IN  [i \in DOMAIN t |-> SplineSegment(obj, indices[i], t[i])]

\* a call that refuses a batch with a non-finite value
SplineCallFiniteOnly(obj, arg) ==
    LET t == WrapFloat(arg)
    IN  IF ~IsNdarray(t) \/ ~AllFinite(t.v)
        THEN [pc |-> "Exit", status |-> "Exit", ret |-> Empty]
        ELSE [pc |-> "Returned", status |-> "Returned", ret |-> SplineEvaluate(obj, t.v)]

\* the outcome of s( arg ) on the object obj
SplineCall(obj, arg) ==
    LET t == WrapFloat(arg)
    IN  IF ~IsNdarray(t)
        THEN [pc |-> "Exit", status |-> "Exit", ret |-> Empty]
        ELSE [pc |-> "Returned", status |-> "Returned", ret |-> SplineEvaluate(obj, t.v)]

(***************************************************************************)
(* Arithmetic in Q(sqrt 3): <<r, s>> is r + s * sqrt(3).                   *)
(***************************************************************************)
Q(r) == <<r, Fl(0)>>

QNaN == <<NaN, NaN>>

QIsFinite(a) == IsFinite(a[1]) /\ IsFinite(a[2])

QAdd(a, b) == <<Add(a[1], b[1]), Add(a[2], b[2])>>

QNeg(a) == <<Neg(a[1]), Neg(a[2])>>

QMul(a, b) ==
    <<Add(Mul(a[1], b[1]), Mul(Fl(3), Mul(a[2], b[2]))),
      Add(Mul(a[1], b[2]), Mul(a[2], b[1]))>>

\* a / b, by the conjugate of b
QDiv(a, b) ==
    LET nrm == Sub(Pow2(b[1]), Mul(Fl(3), Pow2(b[2])))
        num == QMul(a, <<b[1], Neg(b[2])>>)
    IN  <<Div(num[1], nrm), Div(num[2], nrm)>>

\* numpy.cos and numpy.sin at x * pi/3, x a whole number or non-finite
NpCos(x) ==
    IF ~IsFinite(x) THEN QNaN
    ELSE LET p == x[1] % TwoPi
         IN  IF p = 0 THEN Q(Fl(1))
             ELSE IF p = 3 THEN Q(Fl(0 - 1))
             ELSE IF p \in {1, 5} THEN Q(<<1, 2>>)
             ELSE Q(<<0 - 1, 2>>)

NpSin(x) ==
    IF ~IsFinite(x) THEN QNaN
    ELSE LET p == x[1] % TwoPi
         IN  IF p \in {0, 3} THEN Q(Fl(0))
             ELSE IF p \in {1, 2} THEN <<Fl(0), <<1, 2>>>>
             ELSE <<Fl(0), <<0 - 1, 2>>>>

RECURSIVE QDetFrom(_, _, _)
RECURSIVE QDetSum(_, _, _, _)
QDetFrom(M, r, cols) ==
    IF Len(cols) = 0 THEN Q(Fl(1)) ELSE QDetSum(M, r, cols, Len(cols))

QDetSum(M, r, cols, j) ==
    IF j = 0 THEN Q(Fl(0))
    ELSE LET minor == QDetFrom(M, r + 1, Without(cols, j))
             term == QMul(M[r][cols[j]], minor)
         IN  QAdd(QDetSum(M, r, cols, j - 1),
                  IF j % 2 = 1 THEN term ELSE QNeg(term))

QDet(M) == QDetFrom(M, 0, [k \in 1 .. len(M) |-> k - 1])

QCramer(M, b) ==
    LET dt == QDet(M)
    IN  [c \in DOMAIN M |-> QDiv(QDet(ReplaceCol(M, c, b)), dt)]

\* numpy.linalg.solve over Q(sqrt 3), for finite inputs
QLinalgSolve(M, b) ==
    IF QDet(M) = Q(Fl(0))
    THEN [err |-> TRUE, x |-> Empty]
    ELSE [err |-> FALSE, x |-> QCramer(M, b)]

(***************************************************************************)
(* Trigonometric_Polynomial.__init__                                       *)
(***************************************************************************)
\* int( ( n + 1 ) / 2 )
Half(n) == (n + 1) \div 2

\* numpy.hstack( ( const, cos, sin ) ): row i is
\* [ 1/2, cos( k t_i ) (k = 1 .. N), sin( k t_i ) (k = 1 .. N) ]
TrigMatrix(t) ==
    LET n == len(t)
        N == Half(n) - 1
    IN  [i \in 0 .. n - 1 |->
            [c \in 0 .. n - 1 |->
                IF c = 0 THEN Q(<<1, 2>>)
                ELSE IF c <= N THEN NpCos(Mul(Fl(c), t[i]))
                ELSE NpSin(Mul(Fl(c - N), t[i]))]]

\* the slices [ 0 : half ] and [ half : ] of the coefficient list
TrigObject(n, coefs) ==
    [a |-> [k \in 0 .. Half(n) - 1 |-> coefs[k]],
     b |-> [k \in 0 .. n - Half(n) - 1 |-> coefs[k + Half(n)]],
     N |-> n - Half(n)]

\* the outcome of Trigonometric_Polynomial( t, f ): the next pc and the object
TrigInit(t, f) ==
    LET n == len(t)
    IN  IF n % 2 = 0 THEN [pc |-> "Exit", self |-> Empty]
        ELSE IF len(f) # n THEN [pc |-> "Exit", self |-> Empty]
        ELSE IF NotAscendingInRange(t) THEN [pc |-> "Exit", self |-> Empty]
        ELSE LET o == QLinalgSolve(TrigMatrix(t), [i \in DOMAIN f |-> Q(f[i])])
             IN  IF o.err
                 THEN [pc |-> "LinAlgError", self |-> Empty]
                 ELSE [pc |-> "Ready", self |-> TrigObject(n, o.x)]

(***************************************************************************)
(* Trigonometric_Polynomial.__call__                                       *)
(***************************************************************************)
RECURSIVE TrigSum(_, _, _)
\* sum( [ a[ i ] * cos( i * x ) + b[ i - 1 ] * sin( i * x ) for i in 1 .. k ] )
TrigSum(obj, x, k) ==
    IF k = 0 THEN Q(Fl(0))
    ELSE QAdd(TrigSum(obj, x, k - 1),
              QAdd(QMul(obj.a[k], NpCos(Mul(Fl(k), x))),
                   QMul(obj.b[k - 1], NpSin(Mul(Fl(k), x)))))

TrigEvaluate(obj, t) ==
    [i \in DOMAIN t |->
        QAdd(QDiv(obj.a[0], Q(Fl(2))), TrigSum(obj, t[i], obj.N))]

\* the outcome of q( arg ) on the object obj
TrigCall(obj, arg) ==
    LET t == WrapFloat(arg)
    IN  IF ~IsNdarray(t)
        THEN [pc |-> "Exit", status |-> "Exit", ret |-> Empty]
        ELSE [pc |-> "Returned", status |-> "Returned", ret |-> TrigEvaluate(obj, t.v)]

(***************************************************************************)
(* Inputs                                                                  *)
(***************************************************************************)
\* sample positions: whole multiples of pi/3 from -pi/3 to 2 pi
Positions == {Fl(p) : p \in (0 - 1) .. TwoPi}

\* sample values
Values == {Fl(v) : v \in 0 .. MaxVal}

\* the numpy arrays of length 0 .. MaxN over S
NdArrays(S) == UNION {[0 .. k - 1 -> S] : k \in 0 .. MaxN}

\* the position arguments: arrays with at most one position outside
\* [0, 2 pi), ascending or not (the bound keeps the numerators and the
\* denominators of the exact values within TLC's 32-bit integers)
SampleT ==
    {t \in NdArrays(Positions) :
        Cardinality({i \in DOMAIN t : ~(Geq(t[i], Fl(0)) /\ Gt(Fl(TwoPi), t[i]))}) <= 1}

\* the value arguments for n positions: every array of n values, and one
\* array of each other length (its values are never read)
SampleF(n) ==
    [0 .. n - 1 -> Values]
        \cup {[i \in 0 .. k - 1 |-> Fl(0)] : k \in (0 .. MaxN) \ {n}}

\* query values: the whole multiples of pi/3 in [-pi/3, 4 pi), and the
\* non-finite floats
Queries == {Fl(q) : q \in (0 - 1) .. (2 * TwoPi - 1)} \cup {NaN, PosInf, NegInf}

\* the arguments of a call: a float, or an array of one value
CallArgs ==
    {[kind |-> k, v |-> [i \in {0} |-> q]] : k \in {"float", "ndarray"}, q \in Queries}

NoCall == [arg |-> [kind |-> "none", v |-> Empty], status |-> "none", ret |-> Empty]

(***************************************************************************)
(* The state machine: one object of either class, constructed once and     *)
(* then called any number of times.  pc is "Uninitialized" before the      *)
(* constructor runs, "Ready" when the object awaits a call, "Returned"     *)
(* when a call has returned and its value is in call.ret, "Exit" after     *)
(* sys.exit and "LinAlgError" after numpy.linalg.solve has raised.         *)
(***************************************************************************)
Init ==
    /\ pc = "Uninitialized"
    /\ cls = "none"
    /\ self = Empty
    /\ args = [t |-> Empty, f |-> Empty]
    /\ call = NoCall

Cubic_Periodic_Spline_init ==
    /\ pc = "Uninitialized"
    /\ \E t \in SampleT :
          \E f \in SampleF(len(t)) :
              \E o \in SplineInit(t, f) :
                  /\ pc' = o.pc
                  /\ cls' = "Cubic_Periodic_Spline"
                  /\ self' = o.self
                  /\ args' = [t |-> t, f |-> f]
    /\ UNCHANGED call

\* a call that keeps the length of its batch in self.n
Cubic_Periodic_Spline_call_storing ==
    /\ pc = "Ready"
    /\ cls = "Cubic_Periodic_Spline"
    /\ \E arg \in CallArgs :
          LET o == SplineCall(self, arg)
          IN  /\ pc' = o.pc
              /\ call' = [arg |-> arg, status |-> o.status, ret |-> o.ret]
              /\ self' = [self EXCEPT !.n = len(arg.v)]
    /\ UNCHANGED <<cls, args>>

Cubic_Periodic_Spline_call ==
    /\ pc = "Ready"
    /\ cls = "Cubic_Periodic_Spline"
    /\ \E arg \in CallArgs :
          LET o == SplineCall(self, arg)
          IN  /\ pc' = o.pc
              /\ call' = [arg |-> arg, status |-> o.status, ret |-> o.ret]
    /\ UNCHANGED <<cls, self, args>>

Trigonometric_Polynomial_init ==
    /\ pc = "Uninitialized"
    /\ \E t \in SampleT :
          \E f \in SampleF(len(t)) :
              LET o == TrigInit(t, f)
              IN  /\ pc' = o.pc
                  /\ cls' = "Trigonometric_Polynomial"
                  /\ self' = o.self
                  /\ args' = [t |-> t, f |-> f]
    /\ UNCHANGED call

Trigonometric_Polynomial_call ==
    /\ pc = "Ready"
    /\ cls = "Trigonometric_Polynomial"
    /\ \E arg \in CallArgs :
          LET o == TrigCall(self, arg)
          IN  /\ pc' = o.pc
              /\ call' = [arg |-> arg, status |-> o.status, ret |-> o.ret]
    /\ UNCHANGED <<cls, self, args>>

\* the caller takes the returned value and goes on to its next evaluation
Caller_continue ==
    /\ pc = "Returned"
    /\ pc' = "Ready"
    /\ call' = NoCall
    /\ UNCHANGED <<cls, self, args>>

Next ==
    \/ Cubic_Periodic_Spline_init
    \/ Cubic_Periodic_Spline_call
    \/ Trigonometric_Polynomial_init
    \/ Trigonometric_Polynomial_call
    \/ Caller_continue

Spec == Init /\ [][Next]_vars

(***************************************************************************)
(* Vocabulary of the properties                                            *)
(***************************************************************************)
IsSpline == cls = "Cubic_Periodic_Spline"
IsTrig == cls = "Trigonometric_Polynomial"

\* the constructor has run
Constructed == cls # "none"

\* the constructor ended in sys.exit: no instance
ConstructionExit == pc = "Exit" /\ call.status = "none"

\* the constructor produced an instance
Built == pc \in {"Ready", "Returned"} \/ (pc = "Exit" /\ call.status = "Exit")

\* strictly ascending positions, all in [0, 2 pi)
StrictlyAscending(t) == \A i \in 0 .. len(t) - 2 : Gt(t[i + 1], t[i])
InRange(x) == Geq(x, Fl(0)) /\ Gt(Fl(TwoPi), x)
AllInRange(t) == \A i \in DOMAIN t : InRange(t[i])
ValidSamples(t) == StrictlyAscending(t) /\ AllInRange(t)
Distinct(t) == \A i, j \in DOMAIN t : i # j => t[i] # t[j]

\* a call on an array has returned
ArrayReturned ==
    pc = "Returned" /\ call.arg.kind = "ndarray" /\ call.status = "Returned"

Evaluate(obj, t) == IF IsSpline THEN SplineEvaluate(obj, t) ELSE TrigEvaluate(obj, t)

ResultIsFinite(r) == IF IsSpline THEN IsFinite(r) ELSE QIsFinite(r)

(***************************************************************************)
(* C1.  Exact interpolation by the spline: on every spline the constructor *)
(* has built, a query at the sample position t[i] selects segment i and    *)
(* returns f[i].  Stated for the samples the constructor accepts whose     *)
(* positions are pairwise distinct and in [0, 2 pi).                       *)
(***************************************************************************)
C1_ExactInterpolation ==
    (IsSpline /\ ArrayReturned /\ Distinct(args.t) /\ AllInRange(args.t)) =>
        \A i \in 0 .. self.n - 1 :
            call.arg.v[0] = args.t[i] =>
                /\ SplineIndices(self, call.arg.v)[0] = i
                /\ call.ret[0] = args.f[i]

\* The same on strictly ascending positions in [0, 2 pi): there it holds.
C1_ExactInterpolationOnValidSamples ==
    (IsSpline /\ ArrayReturned /\ ValidSamples(args.t)) =>
        \A i \in 0 .. self.n - 1 :
            call.arg.v[0] = args.t[i] =>
                /\ SplineIndices(self, call.arg.v)[0] = i
                /\ call.ret[0] = args.f[i]

(***************************************************************************)
(* C2.  Smoothness of the spline: at every junction t[i], i = 1 .. n (the  *)
(* junction n is the periodic wrap between segment n-1 and segment 0), the *)
(* first and the second derivative of the segment on the left equal those  *)
(* of the segment on the right.  Stated for strictly ascending positions   *)
(* in [0, 2 pi), equidistant or not.                                       *)
(***************************************************************************)
C2_Smooth ==
    (IsSpline /\ pc = "Ready" /\ ValidSamples(args.t)) =>
        \A i \in 1 .. self.n :
            /\ SplineSegmentD1(self, i - 1, self.t[i])
                   = SplineSegmentD1(self, i % self.n, self.t[i % self.n])
            /\ SplineSegmentD2(self, i - 1, self.t[i])
                   = SplineSegmentD2(self, i % self.n, self.t[i % self.n])

(***************************************************************************)
(* C3.  Periodicity of spline evaluation: the value returned for a finite  *)
(* query t is the value evaluate returns for t + 2 pi.  Stated for         *)
(* strictly ascending positions in [0, 2 pi).                              *)
(***************************************************************************)
C3_Periodic ==
    (IsSpline /\ ArrayReturned /\ ValidSamples(args.t) /\ IsFinite(call.arg.v[0])) =>
        call.ret = SplineEvaluate(self, [i \in {0} |-> Add(call.arg.v[0], Fl(TwoPi))])

(***************************************************************************)
(* C4.  Ascending-order rejection: for both engines, construction from     *)
(* positions with a consecutive pair t[i] >= t[i+1] ends in sys.exit and   *)
(* yields no instance.  Stated for pairwise distinct positions in          *)
(* [0, 2 pi), such as [1.0, 0.5, 2.0].                                     *)
(***************************************************************************)
C4_AscendingRejected ==
    (Constructed /\ ~StrictlyAscending(args.t) /\ Distinct(args.t) /\ AllInRange(args.t))
        => ConstructionExit

(***************************************************************************)
(* C5.  Range rejection: for both engines, construction from positions of  *)
(* which one (first, middle or last) is negative or >= 2 pi ends in        *)
(* sys.exit and yields no instance.  Stated for strictly ascending         *)
(* positions.                                                              *)
(***************************************************************************)
C5_RangeRejected ==
    (Constructed /\ StrictlyAscending(args.t) /\ ~AllInRange(args.t)) => ConstructionExit

C7_ScalarAccepted ==
    (Built /\ call.arg.kind = "float") =>
        /\ call.status = "Returned"
        /\ call.ret = Evaluate(self, call.arg.v)

(***************************************************************************)
(* C8.  Malformed query rejection: for both engines, a call on a batch     *)
(* holding nan, +inf or -inf is rejected and returns no result.            *)
(***************************************************************************)
C8_MalformedRejected ==
    (Built /\ call.arg.kind = "ndarray" /\ ~IsFinite(call.arg.v[0])) =>
        call.status # "Returned"

\* C8 as amended: for both engines, a call on a batch holding nan, +inf or
\* -inf is not rejected: it returns a result, whose entry for that value is
\* non-finite.
C8_MalformedEvaluated ==
    (Built /\ call.arg.kind = "ndarray" /\ ~IsFinite(call.arg.v[0])) =>
        /\ call.status = "Returned"
        /\ ~ResultIsFinite(call.ret[0])

C8_Witness ==
    IsSpline /\ ArrayReturned /\ IsNaN(call.arg.v[0]) /\ AllFinite(self.m)

\* a step from a state in which the object exists
C9_Step ==
    pc \in {"Ready", "Returned"} =>
        /\ self' = self
        /\ (pc' = "Returned" => call'.ret = Evaluate(self', call'.arg.v))

(***************************************************************************)
(* C9.  Evaluation is read-only: a call, accepted or rejected, leaves the  *)
(* object as it was, for both engines; so the value a call has returned is *)
(* the value a call with the same batch returns on the object as it is     *)
(* after the call.                                                         *)
(***************************************************************************)
C9_ReadOnly == [][C9_Step]_vars

C9_Witness == ArrayReturned /\ IsFinite(call.arg.v[0])

(***************************************************************************)
(* C10.  Moment system assembly: row r of the matrix the spline            *)
(* constructor solves is the equation of junction r + 1: its two           *)
(* off-diagonal weights sum to 1, and the stored moments satisfy           *)
(*   my_i m[i-1] + 2 m[i] + l_i m[i+1] = d_i    for i = 1 .. n,            *)
(* with m[n] = m[0] and m[n+1] = m[1].  Stated for strictly ascending      *)
(* positions in [0, 2 pi), equidistant or not.                             *)
(***************************************************************************)
C10_MomentSystem ==
    (IsSpline /\ pc = "Ready" /\ ValidSamples(args.t)) =>
        LET n == self.n
            my == SplineMy(self.h)
            l == SplineL(my)
            d == SplineD(self.f, self.h)
            M == InterpolationMatrix(self.h)
        IN  /\ self.m[n] = self.m[0]
            /\ \A r \in 0 .. n - 1 :
                   Add(M[r][(r + n - 1) % n], M[r][(r + 1) % n]) = Fl(1)
            /\ \A i \in 1 .. n :
                   Add(Add(Mul(my[i - 1], self.m[i - 1]), Mul(Fl(2), self.m[i])),
                       Mul(l[i - 1], self.m[(i % n) + 1]))
                     = d[i - 1]

(***************************************************************************)
(* C11.  Segment location: for a finite query t in [0, 2 pi) the call      *)
(* picks an index i in 0 .. n-1 and returns the cubic of segment i at a    *)
(* value that lies in [t[i], t[i+1]): t itself, or t + 2 pi when t is      *)
(* below t[0] and belongs to the wrap segment.  Stated for strictly        *)
(* ascending positions in [0, 2 pi).                                       *)
(***************************************************************************)
C11_SegmentLocation ==
    (IsSpline /\ ArrayReturned /\ ValidSamples(args.t) /\ InRange(call.arg.v[0])) =>
        LET q == call.arg.v[0]
            i == SplineIndices(self, call.arg.v)[0]
        IN  /\ i \in 0 .. self.n - 1
            /\ \E x \in {q, Add(q, Fl(TwoPi))} :
                   /\ Geq(x, self.t[i])
                   /\ Gt(self.t[i + 1], x)
                   /\ call.ret[0] = SplineSegment(self, i, x)

\* The same for the queries at or above t[0]: there it holds.
C11_SegmentLocationFromFirstSample ==
    (IsSpline /\ ArrayReturned /\ ValidSamples(args.t) /\ InRange(call.arg.v[0])
        /\ Geq(call.arg.v[0], args.t[0])) =>
        LET q == call.arg.v[0]
            i == SplineIndices(self, call.arg.v)[0]
        IN  /\ i \in 0 .. self.n - 1
            /\ Geq(q, self.t[i])
            /\ Gt(self.t[i + 1], q)
            /\ call.ret[0] = SplineSegment(self, i, q)

====
